---- MODULE Spec2Model ----
(***************************************************************************)
(* Model of the Minecraft autodonate backend (src/main.py, src/schemas.py). *)
(*                                                                         *)
(* State: the three collections of the document store (rank, promo,        *)
(* order), the request last received and the response last sent, and, for  *)
(* the concurrent specification, each worker's position in its handler.    *)
(*                                                                         *)
(* Conventions.                                                            *)
(*  - Money is an integer number of cents (1/100 of the currency unit);    *)
(*    the code uses binary doubles, whose representation error (far below  *)
(*    a cent) is visible in the model only where it decides the result:    *)
(*    at the decimal ties of round(x, 2), see round.                       *)
(*  - A Python str is a sequence of one-character strings.                 *)
(*  - An ObjectId is a pair <<collection, k>>: the k-th id the store gave  *)
(*    out in that collection.  Its string forms are records, see str.      *)
(*  - Optional[str] is a record [some, val]; None has some = FALSE.        *)
(*  - Rank fields the handlers only pass through (description, color,      *)
(*    perks, popular, icon) are left out of the rank documents.            *)
(***************************************************************************)
EXTENDS Integers, Sequences, FiniteSets, TLC

VARIABLES ranks, promos, orders, req, resp, pc, loc

vars == <<ranks, promos, orders, req, resp, pc, loc>>

(***************************************************************************)
(* Bounds of the model.                                                    *)
(***************************************************************************)
MaxRanks == 1
MaxPromos == 1
MaxOrders == 2
MaxCart == 3
NumWorkers == 2

(***************************************************************************)
(* Strings and optional values.                                            *)
(***************************************************************************)
None == [some |-> FALSE, val |-> <<>>]
Some(v) == [some |-> TRUE, val |-> v]

\* Python truthiness of an Optional[str]: None and "" are falsy.
Truthy(o) == o.some /\ o.val # <<>>

UpperChar(c) ==
    CASE c = "s" -> "S"
      [] c = "t" -> "T"
      [] c = "a" -> "A"
      [] c = "r" -> "R"
      [] OTHER -> c

\* str.upper()
upper(s) == [i \in 1..Len(s) |-> UpperChar(s[i])]

START == <<"S", "T", "A", "R", "T">>
start == <<"s", "t", "a", "r", "t">>

(***************************************************************************)
(* ObjectIds and their string forms.  A 24-digit hex string parses to an   *)
(* ObjectId whatever the case of its digits; str(ObjectId) is lower case;  *)
(* any other string makes ObjectId(...) raise.                             *)
(***************************************************************************)
NoOid == <<"none", 0>>
Malformed == [hex |-> NoOid, form |-> "malformed"]
str(oid) == [hex |-> oid, form |-> "lower"]
StrUpper(oid) == [hex |-> oid, form |-> "upper"]
ObjectIdRaises(s) == s.form = "malformed"
ObjectId(s) == s.hex

(***************************************************************************)
(* The document store.  A collection is a function from ObjectIds to       *)
(* documents; nothing is ever deleted, so the k-th insert of a collection  *)
(* gets a fresh id.                                                        *)
(***************************************************************************)
NewId(coll, name) == <<name, Cardinality(DOMAIN coll) + 1>>

\* database.create_document: insert the document, return its id
create_document(coll, name, doc) == coll @@ (NewId(coll, name) :> doc)

\* a filter is a record of field values: a document matches when it has
\* every field of the filter with the same value; {} matches every document
Matches(doc, filter) ==
    \A k \in DOMAIN filter : k \in DOMAIN doc /\ doc[k] = filter[k]

count_documents(coll, filter) ==
    Cardinality({i \in DOMAIN coll : Matches(coll[i], filter)})

\* find_one with a filter: the first matching document in natural order
find_one(coll, filter) ==
    LET M == {i \in DOMAIN coll : Matches(coll[i], filter)}
    IN  IF M = {} THEN [found |-> FALSE]
        ELSE LET i == CHOOSE i \in M : \A j \in M : i[2] <= j[2]
             IN  [found |-> TRUE, id |-> i, doc |-> coll[i]]

\* find_one({"_id": oid})
find_by_id(coll, oid) ==
    IF oid \in DOMAIN coll THEN [found |-> TRUE, id |-> oid, doc |-> coll[oid]]
    ELSE [found |-> FALSE]

\* mutant: the order is taken out of the collection (find_one_and_delete)
find_one_and_delete(coll, oid) ==
    IF oid \in DOMAIN coll
    THEN [coll |-> [i \in DOMAIN coll \ {oid} |-> coll[i]],
          res |-> [found |-> TRUE, id |-> oid,
                   doc |-> [coll[oid] EXCEPT !.status = "paid"]]]
    ELSE [coll |-> coll, res |-> [found |-> FALSE]]

\* mutant: the order is only read here (find_one), the write is left for later
find_one_without_update(coll, oid) ==
    IF oid \in DOMAIN coll
    THEN [coll |-> coll, res |-> [found |-> TRUE, id |-> oid, doc |-> coll[oid]]]
    ELSE [coll |-> coll, res |-> [found |-> FALSE]]

\* find_one_and_update({"_id": oid}, {"$set": {"status": "paid"}},
\* return_document=True): one atomic store operation; res is the document
\* after the update, or absent
find_one_and_update(coll, oid) ==
    IF oid \in DOMAIN coll
    THEN LET after == [coll EXCEPT ![oid].status = "paid"]
         IN  [coll |-> after, res |-> [found |-> TRUE, id |-> oid, doc |-> after[oid]]]
    ELSE [coll |-> coll, res |-> [found |-> FALSE]]

(***************************************************************************)
(* Responses.                                                              *)
(***************************************************************************)
HTTPException(status_code, detail) ==
    [code |-> status_code, detail |-> detail, body |-> <<>>]
Ok(body) == [code |-> 200, detail |-> "", body |-> body]

\* serialize_doc: "_id" becomes "id", as a string
serialize_doc(oid, doc) == [id |-> str(oid)] @@ doc

\* OrderResponse(id=..., player=..., ...): the fields of the stored document
OrderResponse(oid, doc) ==
    LET d == serialize_doc(oid, doc)
    IN  [id |-> d.id, player |-> d.player, items |-> d.items, amount |-> d.amount,
         currency |-> d.currency, status |-> d.status, email |-> d.email,
         server |-> d.server, promo_code |-> d.promo_code]

(***************************************************************************)
(* Ranks: create_rank and seed_ranks.                                      *)
(***************************************************************************)
create_rank(payload) ==
    LET new_id == NewId(ranks, "rank")
        after == create_document(ranks, "rank", payload)
    IN  [ranks |-> after, resp |-> Ok(serialize_doc(new_id, after[new_id]))]

\* the three default ranks, prices in cents
defaults ==
    << [name |-> "VIP", price |-> 14900],
       [name |-> "Premium", price |-> 29900],
       [name |-> "Deluxe", price |-> 59900] >>

SeedPromo == [code |-> START, discount_percent |-> 10, active |-> TRUE]

\* mutant: the guard of seed_ranks looks at the promos
RanksExistByPromos == count_documents(promos, <<>>) > 0

RanksExist == count_documents(ranks, <<>>) > 0
NoStartPromo(coll) == count_documents(coll, [code |-> START]) = 0

RECURSIVE InsertDefaults(_, _)
InsertDefaults(coll, i) ==
    IF i > Len(defaults) THEN coll
    ELSE InsertDefaults(create_document(coll, "rank", defaults[i]), i + 1)

seed_ranks ==
    IF RanksExist
    THEN [ranks |-> ranks, promos |-> promos, resp |-> Ok("Ranks already exist")]
    ELSE [ranks |-> InsertDefaults(ranks, 1),
          promos |-> IF NoStartPromo(promos)
                     THEN create_document(promos, "promo", SeedPromo)
                     ELSE promos,
          resp |-> Ok("Seeded")]

(***************************************************************************)
(* Promos: create_promo stores the payload as validated by the Promo       *)
(* schema, which leaves the code as given.                                 *)
(***************************************************************************)
create_promo(payload) ==
    LET new_id == NewId(promos, "promo")
        after == create_document(promos, "promo", payload)
    IN  [promos |-> after, resp |-> Ok(serialize_doc(new_id, after[new_id]))]

(***************************************************************************)
(* Orders: create_order.                                                   *)
(***************************************************************************)
\* lines 226-229: a rank_id that ObjectId rejects resolves to no rank
LookupRank(rank_id) ==
    IF ObjectIdRaises(rank_id) THEN [found |-> FALSE]
    ELSE find_by_id(ranks, ObjectId(rank_id))

\* one round of the loop body, lines 232-233
PricedItem(it, rank) ==
    [rank_id |-> str(rank.id), quantity |-> it.quantity, price |-> rank.doc.price]

\* mutant: a line whose rank does not resolve is skipped (best effort)
RECURSIVE BuildItemsSkipping(_, _, _, _)
BuildItemsSkipping(cart, i, items_resp, total) ==
    IF i > Len(cart)
    THEN [ok |-> TRUE, items |-> items_resp, total |-> total]
    ELSE LET rank == LookupRank(cart[i].rank_id)
         IN  IF ~rank.found
             THEN BuildItemsSkipping(cart, i + 1, items_resp, total)
             ELSE BuildItemsSkipping(cart, i + 1,
                                     Append(items_resp, PricedItem(cart[i], rank)),
                                     total + rank.doc.price * cart[i].quantity)

\* the loop of lines 225-234, from entry i on
RECURSIVE BuildItems(_, _, _, _)
BuildItems(cart, i, items_resp, total) ==
    IF i > Len(cart)
    THEN [ok |-> TRUE, items |-> items_resp, total |-> total]
    ELSE LET rank == LookupRank(cart[i].rank_id)
         IN  IF ~rank.found
             THEN [ok |-> FALSE, rank_id |-> cart[i].rank_id]
             ELSE BuildItems(cart, i + 1,
                             Append(items_resp, PricedItem(cart[i], rank)),
                             total + rank.doc.price * cart[i].quantity)

\* mutant: the amount is cut to two decimal places, not rounded
round_down(n) == {n \div 100}

\* round(x, 2) of x = n / 10000, in cents.  Python rounds the binary double:
\* away from a decimal tie that is the nearest cent; at a decimal tie the
\* double lies on either side (0.05 * 0.9 gives 0.05 and 0.15 * 0.9 gives 0.14, but
\* 0.15 * 0.5 gives 0.07), so both neighbours are possible outcomes.
round(n) ==
    LET q == n \div 100
        r == n % 100
    IN  IF r < 50 THEN {q} ELSE IF r > 50 THEN {q + 1} ELSE {q, q + 1}

\* line 242: round(total * (1 - discount_percent / 100.0), 2)
Discounted(total, discount_percent) == round(total * (100 - discount_percent))

\* mutant: the filter of the promo lookup leaves out "active"
FindPromoAnyState(code) ==
    find_one(promos, [code |-> upper(code)])

\* line 238
FindPromo(code) ==
    find_one(promos, [code |-> upper(code), active |-> TRUE])

\* lines 247-263
OrderData(payload, items_resp, total, applied) ==
    [player |-> payload.player,
     items |-> items_resp,
     amount |-> total,
     currency |-> "RUB",
     status |-> "pending",
     email |-> payload.email,
     server |-> payload.server,
     promo_code |-> IF applied THEN Some(upper(payload.promo_code.val)) ELSE None]

\* lines 265-278
PersistOrder(order_data) ==
    LET new_id == NewId(orders, "order")
        after == create_document(orders, "order", order_data)
    IN  [orders |-> after, resp |-> Ok(OrderResponse(new_id, after[new_id]))]

\* the outcomes of create_order(payload): one, or two at a rounding tie
create_order(payload) ==
    IF payload.items = <<>>
    THEN {[orders |-> orders, resp |-> HTTPException(400, "Cart is empty")]}
    ELSE LET built == BuildItems(payload.items, 1, <<>>, 0)
         IN  IF ~built.ok
             THEN {[orders |-> orders, resp |-> HTTPException(404, "Rank not found")]}
             ELSE IF Truthy(payload.promo_code)
             THEN LET promo == FindPromo(payload.promo_code.val)
                  IN  IF promo.found
                      THEN {PersistOrder(OrderData(payload, built.items, t, TRUE)) :
                              t \in Discounted(built.total, promo.doc.discount_percent)}
                      ELSE {[orders |-> orders,
                             resp |-> HTTPException(404, "Promo not found or inactive")]}
             ELSE {PersistOrder(OrderData(payload, built.items, built.total, FALSE))}

(***************************************************************************)
(* Orders: simulate_pay.                                                   *)
(***************************************************************************)
\* mutant: an order that is already paid is refused
simulate_pay_once(order_id) ==
    IF ObjectIdRaises(order_id)
    THEN [orders |-> orders, resp |-> HTTPException(400, "Invalid order id")]
    ELSE LET found == find_by_id(orders, ObjectId(order_id))
             upd == find_one_and_update(orders, ObjectId(order_id))
         IN  IF ~found.found
             THEN [orders |-> orders, resp |-> HTTPException(404, "Order not found")]
             ELSE IF found.doc.status = "paid"
             THEN [orders |-> orders, resp |-> HTTPException(400, "Order already paid")]
             ELSE [orders |-> upd.coll, resp |-> Ok(OrderResponse(upd.res.id, upd.res.doc))]

\* mutant: a malformed id is reported like an unknown one
simulate_pay_not_found(order_id) ==
    LET upd == find_one_and_update(orders, ObjectId(order_id))
    IN  IF ObjectIdRaises(order_id) \/ ~upd.res.found
        THEN [orders |-> upd.coll, resp |-> HTTPException(404, "Order not found")]
        ELSE [orders |-> upd.coll, resp |-> Ok(OrderResponse(upd.res.id, upd.res.doc))]

simulate_pay(order_id) ==
    IF ObjectIdRaises(order_id)
    THEN [orders |-> orders, resp |-> HTTPException(400, "Invalid order id")]
    ELSE LET upd == find_one_and_update(orders, ObjectId(order_id))
         IN  IF ~upd.res.found
             THEN [orders |-> upd.coll, resp |-> HTTPException(404, "Order not found")]
             ELSE [orders |-> upd.coll, resp |-> Ok(OrderResponse(upd.res.id, upd.res.doc))]

(***************************************************************************)
(* Requests.  The inputs are drawn from small sets that satisfy the field  *)
(* constraints of the request models (price >= 0, quantity >= 1,           *)
(* 0 <= discount_percent <= 100).                                          *)
(***************************************************************************)
NoRequest == [op |-> "none", arg |-> <<>>]
NoResponse == [code |-> 0, detail |-> "", body |-> <<>>]

RankPayloads == {[name |-> "Custom", price |-> 5]}

PromoPayloads == [code : {START, start}, discount_percent : {25}, active : BOOLEAN]

\* a rank id that the store never gives out
MissingRank == str(<<"rank", 0>>)

Line(rank_id, quantity) == [rank_id |-> rank_id, quantity |-> quantity]

\* cart lines: the first two ranks, in either quantity, and the two kinds of
\* rank id that resolve to nothing
CartLines ==
    {Line(id, q) : id \in {str(<<"rank", 1>>), StrUpper(<<"rank", 2>>)}, q \in {1, 2}}
    \cup {Line(MissingRank, 1), Line(Malformed, 1)}

Carts(lines, maxLen) == UNION {[1..n -> lines] : n \in 0..maxLen}

OrderPayloads(carts, codes) ==
    [player : {"Steve"}, items : carts, email : {None}, server : {None},
     promo_code : codes]

\* checkout requests of the pricing scenarios: every cart up to MaxCart lines
PricingPayloads ==
    OrderPayloads(Carts(CartLines, MaxCart), {None, Some(<<>>), Some(start)})

\* checkout requests of the lifecycle scenarios: the empty cart and the
\* one-line cart on the first rank
LifecyclePayloads ==
    OrderPayloads(Carts({Line(str(<<"rank", 1>>), 1)}, 1), {None, Some(start)})

OrderIds ==
    {str(<<"order", k>>) : k \in 1..MaxOrders} \cup
    {StrUpper(<<"order", 1>>), str(<<"rank", 1>>), Malformed}

(***************************************************************************)
(* One request handled from receipt to response (requests one at a time).  *)
(***************************************************************************)
Init ==
    /\ ranks = <<>>
    /\ promos = <<>>
    /\ orders = <<>>
    /\ req = NoRequest
    /\ resp = NoResponse
    /\ pc = [w \in 1..NumWorkers |-> "idle"]
    /\ loc = [w \in 1..NumWorkers |-> <<>>]

CreateRank ==
    \E payload \in RankPayloads :
        /\ Cardinality(DOMAIN ranks) < MaxRanks
        /\ LET out == create_rank(payload)
           IN  /\ ranks' = out.ranks
               /\ resp' = out.resp
        /\ req' = [op |-> "create_rank", arg |-> payload]
        /\ UNCHANGED <<promos, orders, pc, loc>>

Seed ==
    /\ LET out == seed_ranks
       IN  /\ ranks' = out.ranks
           /\ promos' = out.promos
           /\ resp' = out.resp
    /\ req' = [op |-> "seed", arg |-> <<>>]
    /\ UNCHANGED <<orders, pc, loc>>

CreatePromo ==
    \E payload \in PromoPayloads :
        /\ Cardinality(DOMAIN promos) < MaxPromos
        /\ LET out == create_promo(payload)
           IN  /\ promos' = out.promos
               /\ resp' = out.resp
        /\ req' = [op |-> "create_promo", arg |-> payload]
        /\ UNCHANGED <<ranks, orders, pc, loc>>

CreateOrder(payloads, cap) ==
    \E payload \in payloads :
        /\ Cardinality(DOMAIN orders) < cap
        /\ \E out \in create_order(payload) :
               /\ orders' = out.orders
               /\ resp' = out.resp
        /\ req' = [op |-> "create_order", arg |-> payload]
        /\ UNCHANGED <<ranks, promos, pc, loc>>

Pay ==
    \E order_id \in OrderIds :
        /\ LET out == simulate_pay(order_id)
           IN  /\ orders' = out.orders
               /\ resp' = out.resp
        /\ req' = [op |-> "pay", arg |-> order_id]
        /\ UNCHANGED <<ranks, promos, pc, loc>>

\* the storefront over its life: admin calls, checkouts, payments
Next ==
    \/ CreateRank
    \/ Seed
    \/ CreatePromo
    \/ CreateOrder(LifecyclePayloads, MaxOrders)
    \/ Pay

Spec == Init /\ [][Next]_vars

\* the pricing scenarios: admin calls that set up ranks and promos, then one
\* checkout into the empty order book
Setup ==
    /\ req.op # "create_order"
    /\ (CreateRank \/ Seed \/ CreatePromo)

Checkout ==
    /\ req.op # "create_order"
    /\ CreateOrder(PricingPayloads, 1)

NextPricing ==
    \/ Setup
    \/ Checkout

SpecPricing == Init /\ [][NextPricing]_vars

(***************************************************************************)
(* Concurrent requests.  Each worker handles one request at a time; a step *)
(* is one operation on the store together with the local computation that *)
(* follows it.  No handler takes a lock.                                   *)
(***************************************************************************)
Workers == 1..NumWorkers

\* the requests of the concurrent scenarios: seeds, checkouts of the one-line
\* cart (one order in all), and payments of that order
ConcPayloads ==
    OrderPayloads({<<Line(str(<<"rank", 1>>), 1)>>}, {None, Some(start)})

ConcOrderIds == {str(<<"order", 1>>), Malformed}

Goto(w, label, locals) ==
    /\ pc' = [pc EXCEPT ![w] = label]
    /\ loc' = [loc EXCEPT ![w] = locals]

\* the handler returns or raises: the worker holds the response to send
Respond(w, request, response) ==
    /\ Goto(w, "reply", [op |-> request.op, response |-> response])
    /\ UNCHANGED <<req, resp>>

\* the response goes out and the worker is free for the next request
Reply(w) ==
    /\ pc[w] = "reply"
    /\ Goto(w, "idle", <<>>)
    /\ UNCHANGED <<ranks, promos, orders, req, resp>>

Busy(labels) == {w \in Workers : pc[w] \in labels}

SeedLabels == {"seed_count", "seed_insert", "seed_promo_count", "seed_promo_insert"}
OrderLabels == {"order_lookup", "order_promo", "order_insert", "order_read"}

\* --- seed_ranks, lines 148-199
ReceiveSeed(w) ==
    /\ pc[w] = "idle"
    /\ Goto(w, "seed_count", [request |-> [op |-> "seed", arg |-> <<>>]])
    /\ UNCHANGED <<ranks, promos, orders, req, resp>>

\* line 150
SeedCount(w) ==
    /\ pc[w] = "seed_count"
    /\ IF RanksExist
       THEN Respond(w, loc[w].request, Ok("Ranks already exist"))
       ELSE /\ Goto(w, "seed_insert", loc[w] @@ [i |-> 1])
            /\ UNCHANGED <<req, resp>>
    /\ UNCHANGED <<ranks, promos, orders>>

\* lines 193-195, one insert
SeedInsert(w) ==
    /\ pc[w] = "seed_insert"
    /\ ranks' = create_document(ranks, "rank", defaults[loc[w].i])
    /\ IF loc[w].i < Len(defaults)
       THEN Goto(w, "seed_insert", [loc[w] EXCEPT !.i = @ + 1])
       ELSE Goto(w, "seed_promo_count", loc[w])
    /\ UNCHANGED <<promos, orders, req, resp>>

\* line 197
SeedPromoCount(w) ==
    /\ pc[w] = "seed_promo_count"
    /\ IF NoStartPromo(promos)
       THEN /\ Goto(w, "seed_promo_insert", loc[w])
            /\ UNCHANGED <<req, resp>>
       ELSE Respond(w, loc[w].request, Ok("Seeded"))
    /\ UNCHANGED <<ranks, promos, orders>>

\* lines 198-199
SeedPromoInsert(w) ==
    /\ pc[w] = "seed_promo_insert"
    /\ promos' = create_document(promos, "promo", SeedPromo)
    /\ Respond(w, loc[w].request, Ok("Seeded"))
    /\ UNCHANGED <<ranks, orders>>

\* --- simulate_pay, lines 280-304
ReceivePay(w) ==
    \E order_id \in ConcOrderIds :
        /\ pc[w] = "idle"
        /\ Goto(w, "pay_update", [request |-> [op |-> "pay", arg |-> order_id]])
        /\ UNCHANGED <<ranks, promos, orders, req, resp>>

\* lines 282-290: the id is parsed, then the one store operation of the handler
PayUpdate(w) ==
    /\ pc[w] = "pay_update"
    /\ IF ObjectIdRaises(loc[w].request.arg)
       THEN /\ Respond(w, loc[w].request, HTTPException(400, "Invalid order id"))
            /\ UNCHANGED orders
       ELSE LET upd == find_one_and_update(orders, ObjectId(loc[w].request.arg))
            IN  /\ orders' = upd.coll
                /\ Goto(w, "pay_respond", loc[w] @@ [res |-> upd.res])
                /\ UNCHANGED <<req, resp>>
    /\ UNCHANGED <<ranks, promos>>

\* lines 291-304
PayRespond(w) ==
    /\ pc[w] = "pay_respond"
    /\ IF ~loc[w].res.found
       THEN Respond(w, loc[w].request, HTTPException(404, "Order not found"))
       ELSE Respond(w, loc[w].request, Ok(OrderResponse(loc[w].res.id, loc[w].res.doc)))
    /\ UNCHANGED <<ranks, promos, orders>>

\* --- create_order, lines 217-278
ReceiveOrder(w) ==
    \E payload \in ConcPayloads :
        /\ pc[w] = "idle"
        /\ Cardinality(DOMAIN orders) + Cardinality(Busy(OrderLabels)) < 1
        /\ LET request == [op |-> "create_order", arg |-> payload]
           IN  IF payload.items = <<>>
               THEN /\ Respond(w, request, HTTPException(400, "Cart is empty"))
               ELSE /\ Goto(w, "order_lookup",
                            [request |-> request, i |-> 1, items_resp |-> <<>>, total |-> 0])
                    /\ UNCHANGED <<req, resp>>
        /\ UNCHANGED <<ranks, promos, orders>>

\* lines 225-234, one round of the loop; after the last, lines 236-237
OrderLookup(w) ==
    /\ pc[w] = "order_lookup"
    /\ LET l == loc[w]
           it == l.request.arg.items[l.i]
           rank == LookupRank(it.rank_id)
           next == [l EXCEPT !.i = @ + 1,
                             !.items_resp = Append(@, PricedItem(it, rank)),
                             !.total = @ + rank.doc.price * it.quantity]
       IN  IF ~rank.found
           THEN Respond(w, l.request, HTTPException(404, "Rank not found"))
           ELSE /\ IF l.i < Len(l.request.arg.items)
                   THEN Goto(w, "order_lookup", next)
                   ELSE IF Truthy(l.request.arg.promo_code)
                   THEN Goto(w, "order_promo", next)
                   ELSE Goto(w, "order_insert", next @@ [applied |-> FALSE])
                /\ UNCHANGED <<req, resp>>
    /\ UNCHANGED <<ranks, promos, orders>>

\* lines 238-245
OrderPromo(w) ==
    /\ pc[w] = "order_promo"
    /\ LET l == loc[w]
           promo == FindPromo(l.request.arg.promo_code.val)
       IN  IF promo.found
           THEN /\ \E t \in Discounted(l.total, promo.doc.discount_percent) :
                       Goto(w, "order_insert", [l EXCEPT !.total = t] @@ [applied |-> TRUE])
                /\ UNCHANGED <<req, resp>>
           ELSE Respond(w, l.request, HTTPException(404, "Promo not found or inactive"))
    /\ UNCHANGED <<ranks, promos, orders>>

\* lines 247-265
OrderInsert(w) ==
    /\ pc[w] = "order_insert"
    /\ LET l == loc[w]
       IN  /\ orders' = create_document(orders, "order",
                            OrderData(l.request.arg, l.items_resp, l.total, l.applied))
           /\ Goto(w, "order_read", [request |-> l.request, new_id |-> NewId(orders, "order")])
    /\ UNCHANGED <<ranks, promos, req, resp>>

\* lines 266-278
OrderRead(w) ==
    /\ pc[w] = "order_read"
    /\ LET doc == find_by_id(orders, loc[w].new_id)
       IN  Respond(w, loc[w].request, Ok(OrderResponse(doc.id, doc.doc)))
    /\ UNCHANGED <<ranks, promos, orders>>

NextConc ==
    \E w \in Workers :
        \/ ReceiveSeed(w)
        \/ SeedCount(w)
        \/ SeedInsert(w)
        \/ SeedPromoCount(w)
        \/ SeedPromoInsert(w)
        \/ ReceivePay(w)
        \/ PayUpdate(w)
        \/ PayRespond(w)
        \/ ReceiveOrder(w)
        \/ OrderLookup(w)
        \/ OrderPromo(w)
        \/ OrderInsert(w)
        \/ OrderRead(w)
        \/ Reply(w)

SpecConc == Init /\ [][NextConc]_vars

(***************************************************************************)
(* Vocabulary of the properties.                                           *)
(***************************************************************************)
\* a well-formed id string that names a document of the collection
Resolves(id, coll) == id.form # "malformed" /\ id.hex \in DOMAIN coll

EqualIgnoringCase(a, b) == upper(a) = upper(b)

StartPromos == {i \in DOMAIN promos : promos[i].code = START}

RECURSIVE CartSum(_, _)
\* sum over the first n cart lines of the stored unit price times the quantity
CartSum(cart, n) ==
    IF n = 0 THEN 0
    ELSE CartSum(cart, n - 1) + ranks[cart[n].rank_id.hex].price * cart[n].quantity

\* amount (in cents) is x (in 1/10000) rounded to two decimal places
RoundedTo2(amount, x) == amount * 100 - x \in -50..50

(***************************************************************************)
(* C1.  Pay is idempotent: a pay request on the id of a stored order       *)
(* answers 200 with that order at status paid and leaves the stored order  *)
(* equal to its previous state with status set to paid; on an order that   *)
(* is already paid the orders collection is left exactly as it was.        *)
(***************************************************************************)
C1_PayIdempotent ==
    [][(req'.op = "pay" /\ Resolves(req'.arg, orders)) =>
          LET id == req'.arg.hex
              paid == [orders[id] EXCEPT !.status = "paid"]
          IN  /\ resp'.code = 200
              /\ resp'.body.status = "paid"
              /\ resp'.body = [id |-> str(id)] @@ paid
              /\ orders' = [orders EXCEPT ![id] = paid]
              /\ (orders[id].status = "paid" => orders' = orders)]_vars

\* a pay request, its id given in upper-case hex, was answered with the order
\* at status paid, and the stored order is paid
C1_Witness ==
    /\ req.op = "pay"
    /\ resp.code = 200
    /\ resp.body.status = "paid"
    /\ orders[req.arg.hex].status = "paid"
    /\ req.arg.form = "upper"

(***************************************************************************)
(* C6.  Pay on a malformed id answers 400, pay on a well-formed id that    *)
(* names no stored order answers 404, and in both cases the orders         *)
(* collection is unchanged.                                                *)
(***************************************************************************)
C6_PayErrors ==
    [][req'.op = "pay" =>
          /\ (req'.arg.form = "malformed" =>
                  resp'.code = 400 /\ orders' = orders)
          /\ (req'.arg.form # "malformed" /\ req'.arg.hex \notin DOMAIN orders =>
                  resp'.code = 404 /\ orders' = orders)]_vars

\* a malformed id was refused while an order is in the store
C6_Witness ==
    /\ req.op = "pay"
    /\ req.arg.form = "malformed"
    /\ resp.code = 400
    /\ DOMAIN orders # {}

(***************************************************************************)
(* C9.  An order is written once, with status pending, and is afterwards   *)
(* changed only by pay setting its status to paid: in every step every     *)
(* stored order stays in the store with all its fields, except that a pay  *)
(* step may take its status from pending to paid; an order that appears    *)
(* is the work of create_order and has status pending.                     *)
(***************************************************************************)
C9_OrderFrame ==
    [][/\ \A id \in DOMAIN orders :
            /\ id \in DOMAIN orders'
            /\ \/ orders'[id] = orders[id]
               \/ /\ req'.op = "pay"
                  /\ orders[id].status = "pending"
                  /\ orders'[id] = [orders[id] EXCEPT !.status = "paid"]
       /\ \A id \in DOMAIN orders' \ DOMAIN orders :
            /\ req'.op = "create_order"
            /\ orders'[id].status = "pending"]_vars

\* a second order was created while the first, already paid, is still there
C9_Witness ==
    /\ req.op = "create_order"
    /\ resp.code = 200
    /\ Cardinality(DOMAIN orders) = 2
    /\ orders[<<"order", 1>>].status = "paid"
    /\ orders[<<"order", 2>>].status = "pending"

(***************************************************************************)
(* C5.  Seed is idempotent: a seed call on a store with at least one rank  *)
(* changes neither the ranks nor the promos; a seed call on the empty      *)
(* store leaves exactly 3 ranks and exactly 1 promo, with code START; and  *)
(* a seed call right after a seed call changes nothing.                    *)
(***************************************************************************)
C5_SeedIdempotent ==
    [][req'.op = "seed" =>
          /\ (DOMAIN ranks # {} => ranks' = ranks /\ promos' = promos)
          /\ (DOMAIN ranks = {} /\ DOMAIN promos = {} =>
                  /\ Cardinality(DOMAIN ranks') = 3
                  /\ Cardinality(DOMAIN promos') = 1
                  /\ \A i \in DOMAIN promos' : promos'[i].code = START)
          /\ (req.op = "seed" => ranks' = ranks /\ promos' = promos)]_vars

\* the second of two seed calls found the ranks of the first
C5_Witness ==
    /\ req.op = "seed"
    /\ resp.body = "Ranks already exist"
    /\ Cardinality(DOMAIN ranks) = 3
    /\ Cardinality(DOMAIN promos) = 1
    /\ Cardinality(StartPromos) = 1

(***************************************************************************)
(* C8.  Promo codes are stored uppercase and are unique ignoring case, so  *)
(* that the lookup of create_order finds every active promo whose code     *)
(* equals the supplied code ignoring case.                                 *)
(***************************************************************************)
C8_PromoCodesUpperUnique ==
    /\ \A i \in DOMAIN promos : promos[i].code = upper(promos[i].code)
    /\ \A i, j \in DOMAIN promos :
          EqualIgnoringCase(promos[i].code, promos[j].code) => i = j
    /\ \A i \in DOMAIN promos : \A code \in {START, start} :
          promos[i].active /\ EqualIgnoringCase(promos[i].code, code)
              => FindPromo(code).found

(***************************************************************************)
(* C2.  A checkout whose cart is not empty and holds, at any position, a   *)
(* rank id that names no stored rank (or is no well-formed id) answers     *)
(* 404 and writes nothing: the orders collection is unchanged.             *)
(***************************************************************************)
C2_MissingRankFailsWithoutWrite ==
    [][(/\ req'.op = "create_order"
        /\ req'.arg.items # <<>>
        /\ \E i \in DOMAIN req'.arg.items : ~Resolves(req'.arg.items[i].rank_id, ranks))
          => resp'.code = 404 /\ orders' = orders]_vars

\* a three-line cart whose middle line names no rank, between two that resolve
C2_Witness ==
    /\ req.op = "create_order"
    /\ Len(req.arg.items) = 3
    /\ Resolves(req.arg.items[1].rank_id, ranks)
    /\ ~Resolves(req.arg.items[2].rank_id, ranks)
    /\ req.arg.items[2].rank_id.form # "malformed"
    /\ Resolves(req.arg.items[3].rank_id, ranks)
    /\ resp.code = 404
    /\ DOMAIN orders = {}

\* no active promo has a code equal to the given one ignoring case
NoActiveMatch(code) ==
    \A i \in DOMAIN promos :
        EqualIgnoringCase(promos[i].code, code) => ~promos[i].active

(***************************************************************************)
(* C3, as claimed.  A checkout that supplies a promo_code matching no      *)
(* promo, or only inactive promos, always answers 404 and persists no      *)
(* order.                                                                  *)
(***************************************************************************)
C3_Original ==
    [][(/\ req'.op = "create_order"
        /\ req'.arg.promo_code.some
        /\ NoActiveMatch(req'.arg.promo_code.val))
          => resp'.code = 404 /\ orders' = orders]_vars

\* C3 as claimed, for carts that are not empty: refuted by the promo_code ""
C3_OriginalOnCarts ==
    [][(/\ req'.op = "create_order"
        /\ req'.arg.items # <<>>
        /\ req'.arg.promo_code.some
        /\ NoActiveMatch(req'.arg.promo_code.val))
          => resp'.code = 404 /\ orders' = orders]_vars

(***************************************************************************)
(* C3, amended.  A checkout with a cart that is not empty and a promo_code *)
(* that is not the empty string and matches (ignoring case) no promo, or   *)
(* only inactive promos, answers 404 and persists no order, also when      *)
(* every cart line resolves.                                               *)
(***************************************************************************)
C3_UnknownPromoFails ==
    [][(/\ req'.op = "create_order"
        /\ req'.arg.items # <<>>
        /\ req'.arg.promo_code.some
        /\ req'.arg.promo_code.val # <<>>
        /\ NoActiveMatch(req'.arg.promo_code.val))
          => resp'.code = 404 /\ orders' = orders]_vars

\* every cart line resolves and the code matches a promo that is inactive
C3_Witness ==
    /\ req.op = "create_order"
    /\ req.arg.items # <<>>
    /\ \A i \in DOMAIN req.arg.items : Resolves(req.arg.items[i].rank_id, ranks)
    /\ req.arg.promo_code = Some(start)
    /\ \E i \in DOMAIN promos : promos[i].code = START /\ ~promos[i].active
    /\ NoActiveMatch(start)
    /\ resp.code = 404
    /\ DOMAIN orders = {}

(***************************************************************************)
(* C4.  A successful checkout returns one line item per cart line, in cart *)
(* order, with the requested quantity and the unit price stored for the    *)
(* referenced rank; its amount is the sum of unit price times quantity     *)
(* when no promo is supplied, and that sum times (1 - discount_percent /   *)
(* 100) rounded to two decimal places when an active promo is supplied.    *)
(***************************************************************************)
C4_PricedItemsAndAmount ==
    [][(req'.op = "create_order" /\ resp'.code = 200) =>
          LET cart == req'.arg.items
              code == req'.arg.promo_code
              order == resp'.body
              sum == CartSum(cart, Len(cart))
          IN  /\ Len(order.items) = Len(cart)
              /\ \A i \in DOMAIN cart :
                    /\ order.items[i].rank_id.hex = cart[i].rank_id.hex
                    /\ order.items[i].quantity = cart[i].quantity
                    /\ order.items[i].price = ranks[cart[i].rank_id.hex].price
              /\ IF code = None
                 THEN order.amount = sum
                 ELSE IF code = Some(<<>>)
                 THEN order.amount = sum
                 ELSE \E i \in DOMAIN promos :
                         /\ promos[i].active
                         /\ promos[i].code = upper(code.val)
                         /\ RoundedTo2(order.amount,
                                       sum * (100 - promos[i].discount_percent))
              /\ orders'[order.id.hex].amount = order.amount
              /\ orders'[order.id.hex].items = order.items]_vars

\* ranks 149 and 299, cart [{149, qty 2}, {299, qty 1}], 10% promo: 537.30
C4_Witness ==
    /\ req.op = "create_order"
    /\ resp.code = 200
    /\ Len(req.arg.items) = 2
    /\ req.arg.items[1].quantity = 2
    /\ req.arg.items[2].quantity = 1
    /\ ranks[req.arg.items[1].rank_id.hex].price = 14900
    /\ ranks[req.arg.items[2].rank_id.hex].price = 29900
    /\ req.arg.promo_code = Some(start)
    /\ \A i \in DOMAIN promos : promos[i].discount_percent = 10
    /\ resp.body.amount = 53730

(***************************************************************************)
(* C7.  Pay is one atomic find-and-set.  With pay requests running         *)
(* concurrently, a pay request whose order is in the store when the store  *)
(* operation runs finds it, and leaves it with status paid and every other *)
(* field as it was; whenever a pay request holds the document the store    *)
(* returned, that document has status paid and is the stored order (no     *)
(* request has read the order without having written it); and the         *)
(* response it then sends is 200 with the stored order at status paid.     *)
(***************************************************************************)
C7_HeldDocumentIsPaid ==
    \A w \in Workers :
        /\ (pc[w] = "pay_respond" /\ loc[w].res.found) =>
              /\ loc[w].res.doc.status = "paid"
              /\ loc[w].res.id \in DOMAIN orders
              /\ orders[loc[w].res.id] = loc[w].res.doc
        /\ (pc[w] = "reply" /\ loc[w].op = "pay" /\ loc[w].response.code = 200) =>
              /\ loc[w].response.body.status = "paid"
              /\ loc[w].response.body =
                     [id |-> loc[w].response.body.id] @@ orders[loc[w].response.body.id.hex]

C7_PayStep ==
    \A w \in Workers :
        /\ (pc[w] = "pay_update" /\ pc'[w] = "pay_respond"
                /\ loc[w].request.arg.hex \in DOMAIN orders) =>
              /\ loc'[w].res.found
              /\ orders' = [orders EXCEPT ![loc[w].request.arg.hex].status = "paid"]
        /\ (pc[w] = "pay_respond" /\ pc'[w] # "pay_respond" /\ loc[w].res.found) =>
              /\ pc'[w] = "reply"
              /\ loc'[w].response.code = 200

C7_PayAtomic == []C7_HeldDocumentIsPaid /\ [][C7_PayStep]_vars

\* two pay requests on the same order both hold the document the store returned
C7_Witness ==
    /\ pc[1] = "pay_respond"
    /\ pc[2] = "pay_respond"
    /\ loc[1].res.found
    /\ loc[2].res.found
    /\ loc[1].res.id = loc[2].res.id

(***************************************************************************)
(* C10.  Seed stays idempotent under concurrent requests: once no seed     *)
(* request is running, a store that was empty before the seed requests     *)
(* holds exactly 3 ranks and exactly 1 promo with code START.              *)
(***************************************************************************)
C10_ConcurrentSeedIdempotent ==
    (Busy(SeedLabels) = {} /\ DOMAIN ranks # {}) =>
        /\ Cardinality(DOMAIN ranks) = 3
        /\ Cardinality(StartPromos) = 1

====
